---- MODULE Spec2Model ----
(***************************************************************************)
(* Model of src/AssumeRoleConnection.py: the AwsConnection class           *)
(* (credential resolution, optional role assumption, connectivity check,   *)
(* object listing) and the run_manual_test entry point.                    *)
(*                                                                         *)
(* The program is single-threaded and blocking.  One action models one     *)
(* blocking stretch of code between two remote calls; the remote services  *)
(* (STS, S3, the SDK's default credential chain, the wall clock) are the   *)
(* environment and answer nondeterministically.                            *)
(***************************************************************************)
EXTENDS Integers, Sequences, FiniteSets, TLC

VARIABLES
    env,          \* os.environ of the process (the four settings the code reads)
    profile,      \* credentials the SDK's default chain finds outside os.environ
    bucket,       \* contents of SOURCE_BUCKET at the backend
    now,          \* wall clock, in ticks of 1/TicksPerSecond second
    runs,         \* entry-point invocations started in this process
    entry,        \* which entry point is running: "none", "manual", "direct"
    args,         \* the arguments the entry point was called with
    pc,           \* position of the running invocation
    self,         \* the AwsConnection object (under construction or built)
    locals,       \* locals of _initialize_aws_clients
    aws_client,   \* the caller's reference to the connection (None until __init__ returns)
    calls,        \* remote calls made by this invocation, in order
    logs,         \* records logged by this invocation, in order
    raised,       \* the exception that escaped to the caller (NoError if none)
    returned,     \* return value of run_manual_test (None until it returns)
    listings,     \* values returned by get_files_from_s3_folder, in order
    roleSessionNames \* RoleSessionName of every assume_role call of the process

vars == <<env, profile, bucket, now, runs, entry, args, pc, self, locals,
          aws_client, calls, logs, raised, returned, listings, roleSessionNames>>

----------------------------------------------------------------------------
(* Bounds of the model *)

MaxClock == 2
TicksPerSecond == 2
MaxRuns == 2
MaxListCalls == 2
MaxObjects == 2

----------------------------------------------------------------------------
(* Values *)

None == "<None>"

\* Python truthiness of an Optional[str]: None and "" are falsy.
Truthy(x) == x # None /\ x # ""

SOURCE_BUCKET == "inversolarmx"
SOURCE_FOLDER == "pricelists"

DefaultRegion == "us-east-1"

NoCreds == [access_key |-> None, secret_key |-> None, token |-> None]
ProfileCreds == [access_key |-> "AKIAPROFILE", secret_key |-> "profile-secret", token |-> None]

\* Temporary credentials STS may issue.
TempCredentials ==
    { [access_key |-> "ASIATEMP1", secret_key |-> "temp-secret-1", token |-> "temp-token-1"],
      [access_key |-> "ASIATEMP2", secret_key |-> "temp-secret-2", token |-> "temp-token-2"] }

NoError == [type |-> "NoError", op |-> None, seq |-> 0]

ErrorTypes == {"NoCredentialsError", "PartialCredentialsError", "ClientError",
               "EndpointConnectionError", "KeyError"}

\* An exception object: its class, the operation that raised it, and the
\* position of that operation among the invocation's remote calls (identity).
Error(type, op, seq) == [type |-> type, op |-> op, seq |-> seq]

----------------------------------------------------------------------------
(* Input domains *)

ArgKeyIds == {None, "", "AKIAARG"}
ArgSecrets == {None, "", "arg-secret"}
ArgRoles == {None, "", "arn:aws:iam::123:role/X"}
ArgRegions == {None, "eu-west-1"}

EnvKeyIds == {None, "AKIAENV"}
EnvSecrets == {None, "env-secret"}
EnvRoles == {None, "arn:aws:iam::123:role/E"}
EnvRegions == {None, "us-west-2"}

Envs == [AWS_ACCESS_KEY_ID : EnvKeyIds, AWS_SECRET_ACCESS_KEY : EnvSecrets,
         ASSUME_ROLE_ARN : EnvRoles, AWS_DEFAULT_REGION : EnvRegions]

Args == [aws_access_key_id : ArgKeyIds, aws_secret_access_key : ArgSecrets,
         assume_role_arn : ArgRoles, region_name : ArgRegions]

\* AwsConnection(...) called without region_name: the parameter's default
\* applies.  Passing None is a different call: None is stored as it is.
NotPassed == "<not passed>"

ConstructorRegions == {NotPassed, None, "eu-west-1"}

ConstructorArgs == [aws_access_key_id : ArgKeyIds, aws_secret_access_key : ArgSecrets,
                    assume_role_arn : ArgRoles, region_name : ConstructorRegions]

NoArgs == [aws_access_key_id |-> None, aws_secret_access_key |-> None,
           assume_role_arn |-> None, region_name |-> None]

\* Instants of the America/Mexico_City zone's last daylight-saving periods,
\* in seconds since the epoch (2021-04-04T08:00Z, 2021-10-31T07:00Z,
\* 2022-04-03T08:00Z, 2022-10-30T07:00Z).
DstStart2021 == 1617523200
DstEnd2021 == 1635663600
DstStart2022 == 1648972800
DstEnd2022 == 1667113200

\* A datetime as the SDK returns it for LastModified: timezone-aware, in UTC.
\* wall is the wall-clock reading in whole seconds (counted as if from the
\* epoch), us the microseconds, offset the zone's offset from UTC in seconds;
\* the instant is wall - offset.
UtcDatetime(sec, us) == [wall |-> sec, us |-> us, offset |-> 0, tz |-> "UTC"]

\* 2021-06-15T12:00:00.123456Z (daylight saving in force), 2023-06-15T12:00:00.000001Z
\* (none), the last microsecond of the 2021 daylight-saving period, and later
\* instants of 2023.
ObjectTime(k) ==
    CASE k = 1 -> UtcDatetime(DstStart2021 + 6235200, 123456)
      [] k = 2 -> UtcDatetime(DstEnd2022 + 19717200, 1)
      [] k = 3 -> UtcDatetime(DstEnd2021 - 1, 999999)
      [] OTHER -> UtcDatetime(DstEnd2022 + 19717200 + k, 0)

\* Objects the backend may hold, some under SOURCE_FOLDER and some not.
\* The key <<folder, k>> stands for "folder/k".
Object(k) ==
    [Key |-> IF k % 2 = 1 THEN <<SOURCE_FOLDER, k>> ELSE <<"other", k>>,
     Size |-> 10 * (k - 1),
     LastModified |-> ObjectTime(k),
     StorageClass |-> IF k % 2 = 1 THEN "STANDARD" ELSE "GLACIER"]

Objects == { Object(k) : k \in 1..MaxObjects }

\* A bucket holds each key once; the backend returns the objects in an order
\* of its own.
RECURSIVE SeqsOver(_, _)
SeqsOver(S, n) ==
    IF n = 0 THEN {<<>>}
    ELSE LET shorter == SeqsOver(S, n - 1)
         IN  shorter \cup
             { Append(q, o) : q \in {r \in shorter : Len(r) = n - 1},
                              o \in S }

NoRepeat(q) == \A i, j \in 1..Len(q) : i # j => q[i].Key # q[j].Key

Buckets == { q \in SeqsOver(Objects, MaxObjects) : NoRepeat(q) }

\* What a remote service may answer to a signed request.
StsOutcomes == {"ok", "ClientError", "EndpointConnectionError"}
S3Outcomes == {"ok", "ClientError", "EndpointConnectionError"}

----------------------------------------------------------------------------
(* The SDK: sessions, the default credential chain, clients *)

\* botocore's default chain as the code relies on it: environment variables
\* first, then the other providers (shared config, instance metadata).
DefaultChain(e, p) ==
    IF Truthy(e.AWS_ACCESS_KEY_ID)
    THEN IF Truthy(e.AWS_SECRET_ACCESS_KEY)
         THEN [status |-> "found",
               creds |-> [access_key |-> e.AWS_ACCESS_KEY_ID,
                          secret_key |-> e.AWS_SECRET_ACCESS_KEY,
                          token |-> None]]
         ELSE [status |-> "partial", creds |-> NoCreds]
    ELSE IF p # NoCreds
         THEN [status |-> "found", creds |-> p]
         ELSE [status |-> "none", creds |-> NoCreds]

\* boto3.Session(aws_access_key_id=..., aws_secret_access_key=..., region_name=...)
ExplicitSession(key, secret, region) ==
    [kind |-> "explicit", access_key |-> key, secret_key |-> secret,
     token |-> None, region |-> region]

\* boto3.Session(region_name=...)
DefaultSession(region) ==
    [kind |-> "default", access_key |-> None, secret_key |-> None,
     token |-> None, region |-> region]

\* boto3.Session(aws_access_key_id=..., aws_secret_access_key=...,
\*               aws_session_token=..., region_name=...)
TemporarySession(credentials, region) ==
    [kind |-> "temporary", access_key |-> credentials.access_key,
     secret_key |-> credentials.secret_key, token |-> credentials.token,
     region |-> region]

\* The credentials a session signs with.
SessionCredentials(session, e, p) ==
    IF session.kind = "default"
    THEN DefaultChain(e, p)
    ELSE [status |-> "found",
          creds |-> [access_key |-> session.access_key,
                     secret_key |-> session.secret_key,
                     token |-> session.token]]

\* session.client(service): the client carries the session's kind, the
\* credentials it resolved and the region.
Client(service, session, e, p) ==
    [service |-> service, kind |-> session.kind,
     creds |-> SessionCredentials(session, e, p).creds,
     region |-> session.region]

NoClient == [service |-> None, kind |-> None, creds |-> NoCreds, region |-> None]

\* A log record.
Log(level, msg) == <<level, msg>>

\* The Prefix parameter of a listing request: not passed, or the string
\* folder + "/" (slash), or the empty string.
NoPrefix == [passed |-> FALSE, folder |-> "", slash |-> FALSE]

\* One remote call as the client issued it.
\* kind and creds are those of the client that signs; Credentials is what an
\* assume_role answer carries.
Call(op, phase, client, name, outcome, issued) ==
    [op |-> op, phase |-> phase, kind |-> client.kind, creds |-> client.creds,
     RoleSessionName |-> name,
     Bucket |-> IF op = "list_objects_v2" THEN SOURCE_BUCKET ELSE None,
     Prefix |-> NoPrefix, outcome |-> outcome,
     Credentials |-> IF outcome = "ok" THEN issued ELSE NoCreds]

\* A client without credentials cannot sign: the SDK raises NoCredentialsError
\* whatever the service would have answered.
Answer(client, outcome) ==
    IF client.creds = NoCreds THEN "NoCredentialsError" ELSE outcome

\* Whether the key <<folder, k>> starts with the prefix.
Matches(key, prefix) == prefix.slash => key[1] = prefix.folder

KeepMatching(b, prefix) == SelectSeq(b, LAMBDA o : Matches(o.Key, prefix))

\* The backend's answer to list_objects_v2(Bucket=SOURCE_BUCKET[, Prefix=prefix]):
\* the objects whose key starts with the prefix, in the backend's order;
\* "Contents" is present only when there is at least one.
ListObjectsV2(b, prefix) ==
    LET found == KeepMatching(b, prefix)
    IN  [Name |-> SOURCE_BUCKET, KeyCount |-> Len(found),
         HasContents |-> Len(found) > 0, Contents |-> found]

----------------------------------------------------------------------------
(* run_manual_test: configuration *)

\* Variant: the environment is consulted first.
ResolveSettingEnvFirst(arg, envValue) ==
    IF envValue # None THEN envValue ELSE arg

\* if not x: x = os.environ.get(NAME)
ResolveSetting(arg, envValue) ==
    IF ~Truthy(arg) THEN envValue ELSE arg

\* if not region_name: region_name = os.environ.get("AWS_DEFAULT_REGION", "us-east-1")
ResolveRegion(arg, envValue) ==
    IF ~Truthy(arg)
    THEN IF envValue = None THEN DefaultRegion ELSE envValue
    ELSE arg

ResolveConfig(a, e) ==
    [aws_access_key_id |-> ResolveSetting(a.aws_access_key_id, e.AWS_ACCESS_KEY_ID),
     aws_secret_access_key |-> ResolveSetting(a.aws_secret_access_key, e.AWS_SECRET_ACCESS_KEY),
     assume_role_arn |-> ResolveSetting(a.assume_role_arn, e.ASSUME_ROLE_ARN),
     region_name |-> ResolveRegion(a.region_name, e.AWS_DEFAULT_REGION)]

\* AwsConnection.__init__'s parameters: region_name = "us-east-1" when the
\* caller does not pass it; a passed value, None included, is kept.
ConstructorConfig(a) ==
    [a EXCEPT !.region_name = IF a.region_name = NotPassed THEN DefaultRegion ELSE a.region_name]

----------------------------------------------------------------------------
(* AwsConnection._initialize_aws_clients *)

\* Variant: `or` where the code has `and`.
BaseSessionEitherKey(aws_access_key_id, aws_secret_access_key, region_name) ==
    IF Truthy(aws_access_key_id) \/ Truthy(aws_secret_access_key)
    THEN [session |-> ExplicitSession(aws_access_key_id, aws_secret_access_key, region_name),
          log |-> Log("INFO", "Using provided AWS credentials")]
    ELSE [session |-> DefaultSession(region_name),
          log |-> Log("INFO", "Using default AWS credentials")]

\* The initial session: the provided pair, or the default chain.
BaseSession(aws_access_key_id, aws_secret_access_key, region_name) ==
    IF Truthy(aws_access_key_id) /\ Truthy(aws_secret_access_key)
    THEN [session |-> ExplicitSession(aws_access_key_id, aws_secret_access_key, region_name),
          log |-> Log("INFO", "Using provided AWS credentials")]
    ELSE [session |-> DefaultSession(region_name),
          log |-> Log("INFO", "Using default AWS credentials")]

\* Variant: the session is not rebuilt after the role was assumed.
FinalSessionKeepsBase(base, credentials, region_name) == base

\* The session after a successful _assume_role: built from the returned
\* credentials alone.
FinalSession(base, credentials, region_name) ==
    TemporarySession(credentials, region_name)

\* Variant: the handler raises a new exception in place of the caught one.
InitializeWraps(e) ==
    [log |-> Log("ERROR", "Failed to initialize AWS clients"),
     raise |-> Error("RuntimeError", "initialize", e.seq)]

\* Variant: the handler logs and does not re-raise.
InitializeSwallows(e) ==
    [log |-> Log("ERROR", "Failed to initialize AWS clients"), raise |-> NoError]

\* except Exception as e: logger.error(...); raise
InitializeExcept(e) ==
    [log |-> Log("ERROR", "Failed to initialize AWS clients"), raise |-> e]

----------------------------------------------------------------------------
(* AwsConnection._assume_role *)

\* f"S3ExcelProcessor-{int(datetime.now().timestamp())}": whole seconds.
RoleSessionName(t) == <<"S3ExcelProcessor", t \div TicksPerSecond>>

\* Variant: the handler logs and does not re-raise.
AssumeRoleSwallows(e) ==
    [log |-> Log("ERROR", "Failed to assume role"), raise |-> NoError]

\* Variant: every failure of the step is raised as one delegation error.
AssumeRoleWraps(e) ==
    [log |-> Log("ERROR", "Failed to assume role"),
     raise |-> Error("ClientError", "assume_role", e.seq)]

\* except Exception as e: logger.error(...); raise
AssumeRoleExcept(e) ==
    [log |-> Log("ERROR", "Failed to assume role"), raise |-> e]

\* _assume_role(session) for the STS answer `outcome` (carrying the
\* credentials `issued` when it is "ok") at time t, as call number seq of the
\* invocation.
assume_role(session, role, outcome, issued, t, seq, e, p) ==
    LET found == SessionCredentials(session, e, p)
        sts == Client("sts", session, e, p)
        answer == Answer(sts, outcome)
        call == Call("assume_role", "delegate", sts, RoleSessionName(t), answer, issued)
    IN  IF found.status = "partial"
        THEN LET h == AssumeRoleExcept(Error("PartialCredentialsError", "client", seq))
             IN  [calls |-> <<>>, credentials |-> NoCreds,
                  logs |-> <<h.log>>, raise |-> h.raise]
        ELSE IF answer = "ok"
        THEN [calls |-> <<call>>, credentials |-> call.Credentials,
              logs |-> <<>>, raise |-> NoError]
        ELSE LET h == AssumeRoleExcept(Error(answer, "assume_role", seq))
             IN  [calls |-> <<call>>, credentials |-> NoCreds,
                  logs |-> <<h.log>>, raise |-> h.raise]

----------------------------------------------------------------------------
(* AwsConnection._test_connection *)

\* Variant: the handler logs and does not re-raise.
TestConnectionSwallows(e) ==
    [log |-> Log("ERROR", "Failed to connect to AWS S3"), raise |-> NoError]

\* except Exception as e: logger.error(...); raise
TestConnectionExcept(e) ==
    [log |-> Log("ERROR", "Failed to connect to AWS S3"), raise |-> e]

test_connection(s3_client, outcome, b, seq) ==
    LET answer == Answer(s3_client, outcome)
        call == Call("list_objects_v2", "validate", s3_client, None, answer, NoCreds)
    IN  IF answer = "ok"
        THEN [calls |-> <<call>>,
              logs |-> <<Log("INFO", "Successfully connected to AWS")>>,
              raise |-> NoError]
        ELSE LET h == TestConnectionExcept(Error(answer, "list_objects_v2", seq))
             IN  [calls |-> <<call>>, logs |-> <<h.log>>, raise |-> h.raise]

----------------------------------------------------------------------------
(* AwsConnection.get_files_from_s3_folder *)

\* Offsets of America/Mexico_City from UTC, in seconds.
MexicoCityStandardOffset == -21600
MexicoCityDaylightOffset == -18000

\* The zone's offset at an instant (of 2021 or later; daylight saving ended
\* for good on 2022-10-30).
MexicoCityOffsetAt(instant) ==
    IF \/ (DstStart2021 <= instant /\ instant < DstEnd2021)
       \/ (DstStart2022 <= instant /\ instant < DstEnd2022)
    THEN MexicoCityDaylightOffset
    ELSE MexicoCityStandardOffset

\* pd.to_datetime(column, utc=True) on an aware datetime: the same instant
\* read in UTC, at nanosecond resolution.
ToDatetimeUtc(dt) ==
    [wall |-> dt.wall - dt.offset, ns |-> dt.us * 1000, offset |-> 0, tz |-> "UTC"]

\* Variant: the zone is attached to the wall-clock reading without
\* converting it.
TzRelabel(ts) ==
    [ts EXCEPT !.offset = MexicoCityOffsetAt(ts.wall - ts.offset),
               !.tz = "America/Mexico_City"]

\* column.dt.tz_convert("America/Mexico_City"): the same instant read on the
\* zone's wall clock.
TzConvert(ts) ==
    LET instant == ts.wall - ts.offset
        off == MexicoCityOffsetAt(instant)
    IN  [wall |-> instant + off, ns |-> ts.ns, offset |-> off,
         tz |-> "America/Mexico_City"]

Normalize(lastModified) == TzConvert(ToDatetimeUtc(lastModified))

\* One row of the DataFrame built from response["Contents"].
Row(o) ==
    [Key |-> o.Key, Size |-> o.Size, LastModified |-> Normalize(o.LastModified),
     StorageClass |-> o.StorageClass]

\* Variant: the rows come out sorted, the newest object first.
FrameNewestFirst(contents) ==
    [type |-> "DataFrame",
     rows |-> IF Len(contents) >= 2 /\ contents[1].LastModified.wall < contents[2].LastModified.wall
              THEN [i \in 1..Len(contents) |->
                      Row(contents[IF i = 1 THEN 2 ELSE IF i = 2 THEN 1 ELSE i])]
              ELSE [i \in 1..Len(contents) |-> Row(contents[i])]]

\* pd.DataFrame(response["Contents"]) with its Key and LastModified columns
\* converted: one row per entry, in the entries' order.
Frame(contents) == [type |-> "DataFrame", rows |-> [i \in 1..Len(contents) |-> Row(contents[i])]]

EmptyList == [type |-> "list", rows |-> <<>>]

\* Variant: the absence of objects is logged as an error.
NoContentsAsError ==
    [value |-> EmptyList,
     logs |-> <<Log("ERROR", "No files found in the source folder")>>]

\* if "Contents" not in response: logger.info(...); return []
NoContents ==
    [value |-> EmptyList,
     logs |-> <<Log("INFO", "No files found in the source folder")>>]

\* Variant: the handler logs and re-raises.
GetFilesReraises(e) ==
    [value |-> EmptyList,
     log |-> Log("ERROR", "Error getting files from S3"), raise |-> e]

\* except Exception as e: logger.error(...); return []
GetFilesExcept(e) ==
    [value |-> EmptyList,
     log |-> Log("ERROR", "Error getting files from S3"), raise |-> NoError]

\* prefix = f"{SOURCE_FOLDER}/" if SOURCE_FOLDER else ""
PrefixOf(folder) ==
    IF Truthy(folder)
    THEN [passed |-> TRUE, folder |-> folder, slash |-> TRUE]
    ELSE [passed |-> TRUE, folder |-> "", slash |-> FALSE]

\* Variant: the request of the commented-out call, list_objects_v2(Bucket=SOURCE_BUCKET,
\* Prefix=prefix).
ListRequestWithPrefix(folder) ==
    [Bucket |-> SOURCE_BUCKET, Prefix |-> PrefixOf(folder)]

\* The request of the call the code makes: list_objects_v2(Bucket=SOURCE_BUCKET);
\* the prefix computed from the folder is not passed.
ListRequest(folder) ==
    [Bucket |-> SOURCE_BUCKET, Prefix |-> NoPrefix]

\* Variant: a failed listing is tried a second time.
IssueListingWithRetry(s3_client, outcome, request) ==
    LET answer == Answer(s3_client, outcome)
        call == [Call("list_objects_v2", "enumerate", s3_client, None, answer, NoCreds)
                   EXCEPT !.Bucket = request.Bucket, !.Prefix = request.Prefix]
    IN  [calls |-> IF answer = "ok" THEN <<call>> ELSE <<call, call>>, answer |-> answer]

\* response = self.s3_client.list_objects_v2(...): one call, signed by the
\* connection's client.
IssueListing(s3_client, outcome, request) ==
    LET answer == Answer(s3_client, outcome)
        call == [Call("list_objects_v2", "enumerate", s3_client, None, answer, NoCreds)
                   EXCEPT !.Bucket = request.Bucket, !.Prefix = request.Prefix]
    IN  [calls |-> <<call>>, answer |-> answer]

\* What get_files_from_s3_folder does with the backend's response.
ListingOutcome(io, response, seq) ==
    IF io.answer # "ok"
    THEN LET h == GetFilesExcept(Error(io.answer, "list_objects_v2", seq))
         IN  [calls |-> io.calls, value |-> h.value, logs |-> <<h.log>>,
              raise |-> h.raise]
    ELSE IF ~response.HasContents
    THEN [calls |-> io.calls, value |-> NoContents.value,
          logs |-> NoContents.logs, raise |-> NoError]
    ELSE IF Len(response.Contents) = 0
    THEN \* pd.DataFrame([]) has no "Key" column
         LET h == GetFilesExcept(Error("KeyError", "DataFrame", seq))
         IN  [calls |-> io.calls, value |-> h.value,
              logs |-> <<Log("INFO", "Found objects in source folder"), h.log>>,
              raise |-> h.raise]
    ELSE [calls |-> io.calls, value |-> Frame(response.Contents),
          logs |-> <<Log("INFO", "Found objects in source folder"),
                     Log("INFO", "Files DataFrame created")>>,
          raise |-> NoError]

\* Variant: the connection keeps a continuation marker, so that a listing
\* that follows another one starts after the first entry.
get_files_resuming(s3_client, outcome, b, seq, folder) ==
    LET request == ListRequest(folder)
        io == IssueListing(s3_client, outcome, request)
        all == ListObjectsV2(b, request.Prefix)
        rest == ListObjectsV2(IF seq % 2 = 0 THEN b ELSE Tail(b), request.Prefix)
    IN  ListingOutcome(io, IF Len(b) = 0 THEN all ELSE rest, seq)

\* get_files_from_s3_folder() for the backend answer `outcome` on a bucket
\* holding b, as call number seq of the invocation, with SOURCE_FOLDER = folder.
get_files_from_s3_folder(s3_client, outcome, b, seq, folder) ==
    LET request == ListRequest(folder)
        io == IssueListing(s3_client, outcome, request)
        response == ListObjectsV2(b, request.Prefix)
    IN  ListingOutcome(io, response, seq)

----------------------------------------------------------------------------
(* run_manual_test *)

\* except Exception as e: raise e
RunManualTestExcept(e) == e

\* What reaches the caller of the running entry point when construction
\* raises e.
Escapes(ent, e) == IF ent = "manual" THEN RunManualTestExcept(e) ELSE e

----------------------------------------------------------------------------
(* State machine *)

NoSession == [kind |-> None, access_key |-> None, secret_key |-> None,
              token |-> None, region |-> None]

NoSelf == [region_name |-> None, assume_role_arn |-> None, s3_client |-> NoClient]

NoLocals == [aws_access_key_id |-> None, aws_secret_access_key |-> None,
             session |-> NoSession]

Init ==
    /\ env \in Envs
    /\ profile \in {NoCreds, ProfileCreds}
    /\ bucket \in Buckets
    /\ now = 0
    /\ runs = 0
    /\ entry = "none"
    /\ args = NoArgs
    /\ pc = "idle"
    /\ self = NoSelf
    /\ locals = NoLocals
    /\ aws_client = None
    /\ calls = <<>>
    /\ logs = <<>>
    /\ raised = NoError
    /\ returned = None
    /\ listings = <<>>
    /\ roleSessionNames = <<>>

\* AwsConnection.__init__ up to the call of _initialize_aws_clients.
Enter(ent, a, cfg, firstLogs) ==
    /\ runs' = runs + 1
    /\ entry' = ent
    /\ args' = a
    /\ self' = [region_name |-> cfg.region_name,
                assume_role_arn |-> cfg.assume_role_arn,
                s3_client |-> NoClient]
    /\ locals' = [aws_access_key_id |-> cfg.aws_access_key_id,
                  aws_secret_access_key |-> cfg.aws_secret_access_key,
                  session |-> NoSession]
    /\ logs' = firstLogs
    /\ pc' = "session"
    /\ UNCHANGED <<env, profile, bucket, now, aws_client, calls, raised,
                   returned, listings, roleSessionNames>>

\* "=" * 50
Rule == "=================================================="

\* run_manual_test(...) is called: it reads its configuration and constructs
\* the connection.
RunManualTest(a) ==
    /\ pc = "idle"
    /\ runs < MaxRuns
    /\ Enter("manual", a, ResolveConfig(a, env),
             <<Log("INFO", "Starting manual test execution"),
               Log("INFO", Rule)>>)

\* A caller constructs AwsConnection(...) itself.
Construct(a) ==
    /\ pc = "idle"
    /\ runs < MaxRuns
    /\ Enter("direct", a, ConstructorConfig(a), <<>>)

\* The construction ends with the exception e escaping _initialize_aws_clients
\* (or, were e no exception, with the constructor returning).
EndConstruction(e) ==
    IF e = NoError
    THEN /\ aws_client' = "self"
         /\ pc' = "list"
         /\ UNCHANGED raised
    ELSE /\ raised' = Escapes(entry, e)
         /\ pc' = "raised"
         /\ UNCHANGED aws_client

CreateSession ==
    /\ pc = "session"
    /\ LET b == BaseSession(locals.aws_access_key_id,
                            locals.aws_secret_access_key, self.region_name)
       IN  /\ locals' = [locals EXCEPT !.session = b.session]
           /\ logs' = Append(logs, b.log)
    /\ pc' = IF Truthy(self.assume_role_arn) THEN "assume" ELSE "client"
    /\ UNCHANGED <<env, profile, bucket, now, runs, entry, args, self,
                   aws_client, calls, raised, returned, listings,
                   roleSessionNames>>

AssumeRole ==
    /\ pc = "assume"
    /\ \E outcome \in StsOutcomes, issued \in TempCredentials :
         LET r == assume_role(locals.session, self.assume_role_arn, outcome,
                              issued, now, Len(calls) + 1, env, profile)
             entering == <<Log("INFO", "Assuming role")>>
         IN  /\ calls' = calls \o r.calls
             /\ roleSessionNames' =
                  roleSessionNames \o [i \in 1..Len(r.calls) |-> r.calls[i].RoleSessionName]
             /\ IF r.raise = NoError
                THEN /\ locals' = [locals EXCEPT !.session =
                                     FinalSession(locals.session, r.credentials,
                                                  self.region_name)]
                     /\ logs' = logs \o entering \o r.logs
                                  \o <<Log("INFO", "Successfully assumed role")>>
                     /\ pc' = "client"
                     /\ UNCHANGED <<aws_client, raised>>
                ELSE LET h == InitializeExcept(r.raise)
                     IN  /\ logs' = logs \o entering \o r.logs \o <<h.log>>
                         /\ EndConstruction(h.raise)
                         /\ UNCHANGED locals
    /\ UNCHANGED <<env, profile, bucket, now, runs, entry, args, self,
                   returned, listings>>

CreateClient ==
    /\ pc = "client"
    /\ IF SessionCredentials(locals.session, env, profile).status = "partial"
       THEN LET h == InitializeExcept(
                       Error("PartialCredentialsError", "client", Len(calls) + 1))
            IN  /\ logs' = Append(logs, h.log)
                /\ EndConstruction(h.raise)
                /\ UNCHANGED self
       ELSE /\ self' = [self EXCEPT !.s3_client =
                          Client("s3", locals.session, env, profile)]
            /\ pc' = "test"
            /\ UNCHANGED <<logs, raised, aws_client>>
    /\ UNCHANGED <<env, profile, bucket, now, runs, entry, args, locals,
                   calls, returned, listings, roleSessionNames>>

TestConnection ==
    /\ pc = "test"
    /\ \E outcome \in S3Outcomes :
         LET r == test_connection(self.s3_client, outcome, bucket, Len(calls) + 1)
         IN  /\ calls' = calls \o r.calls
             /\ IF r.raise = NoError
                THEN /\ logs' = logs \o r.logs
                     /\ EndConstruction(NoError)
                ELSE LET h == InitializeExcept(r.raise)
                     IN  /\ logs' = logs \o r.logs \o <<h.log>>
                         /\ EndConstruction(h.raise)
    /\ UNCHANGED <<env, profile, bucket, now, runs, entry, args, self, locals,
                   returned, listings, roleSessionNames>>

\* get_files_from_s3_folder() on the constructed connection; in
\* run_manual_test it is followed by `return True`.
GetFiles ==
    /\ pc = "list"
    /\ aws_client = "self"
    /\ Len(listings) < MaxListCalls
    /\ \E outcome \in S3Outcomes :
         LET r == get_files_from_s3_folder(self.s3_client, outcome, bucket,
                                           Len(calls) + 1, SOURCE_FOLDER)
         IN  /\ calls' = calls \o r.calls
             /\ logs' = logs \o r.logs
             /\ IF r.raise = NoError
                THEN /\ listings' = Append(listings, r.value)
                     /\ UNCHANGED raised
                     /\ IF entry = "manual"
                        THEN returned' = "True" /\ pc' = "done"
                        ELSE UNCHANGED <<returned, pc>>
                ELSE /\ raised' = Escapes(entry, r.raise)
                     /\ pc' = "raised"
                     /\ UNCHANGED <<listings, returned>>
    /\ UNCHANGED <<env, profile, bucket, now, runs, entry, args, self, locals,
                   aws_client, roleSessionNames>>

Next ==
    \/ \E a \in Args : RunManualTest(a)
    \/ \E a \in ConstructorArgs : Construct(a)
    \/ CreateSession
    \/ AssumeRole
    \/ CreateClient
    \/ TestConnection
    \/ GetFiles

Spec == Init /\ [][Next]_vars

----------------------------------------------------------------------------
(* A process that calls the entry points several times while the clock runs *)

InitProcess ==
    /\ Init
    /\ bucket = <<>>
    /\ env.AWS_DEFAULT_REGION = None
    /\ env.ASSUME_ROLE_ARN = None

Tick ==
    /\ now < MaxClock
    /\ now' = now + 1
    /\ UNCHANGED <<env, profile, bucket, runs, entry, args, pc, self, locals,
                   aws_client, calls, logs, raised, returned, listings,
                   roleSessionNames>>

\* The invocation is over and its objects are dropped; the process goes on.
Finish ==
    /\ pc \in {"done", "raised"} \/ (pc = "list" /\ entry = "direct")
    /\ pc' = "idle"
    /\ entry' = "none"
    /\ args' = NoArgs
    /\ self' = NoSelf
    /\ locals' = NoLocals
    /\ aws_client' = None
    /\ calls' = <<>>
    /\ logs' = <<>>
    /\ raised' = NoError
    /\ returned' = None
    /\ listings' = <<>>
    /\ UNCHANGED <<env, profile, bucket, now, runs, roleSessionNames>>

NextProcess == Next \/ Tick \/ Finish

SpecProcess == InitProcess /\ [][NextProcess]_vars

----------------------------------------------------------------------------
(* Vocabulary of the properties *)

CallIndexes == 1..Len(calls)

StorageCalls == { i \in CallIndexes : calls[i].op = "list_objects_v2" }
ValidationCalls == { i \in CallIndexes : calls[i].phase = "validate" }
EnumerationCalls == { i \in CallIndexes : calls[i].phase = "enumerate" }
AssumeRoleCalls == { i \in CallIndexes : calls[i].op = "assume_role" }

ErrorLogged == \E i \in 1..Len(logs) : logs[i][1] = "ERROR"

\* The explicit pair as AwsConnection received it.
PairSupplied ==
    Truthy(locals.aws_access_key_id) /\ Truthy(locals.aws_secret_access_key)

SuppliedCreds ==
    [access_key |-> locals.aws_access_key_id,
     secret_key |-> locals.aws_secret_access_key, token |-> None]

RoleSupplied == Truthy(self.assume_role_arn)

Constructing == pc \in {"session", "assume", "client", "test"}
Started == pc # "idle"

----------------------------------------------------------------------------
(* C1 *)

\* C1: when a role identifier is supplied and assume-role succeeded, every
\* storage call (the validation listing and every later listing) is signed
\* by a client of a temporary session holding exactly the credentials that
\* the assume-role answer carried; the base session signs the assume-role
\* call only.
C1_StorageCallsUseTemporaryCredentials ==
    (Started /\ RoleSupplied) =>
        /\ \A i \in AssumeRoleCalls : calls[i].kind \in {"explicit", "default"}
        /\ \A i \in StorageCalls :
             /\ calls[i].kind = "temporary"
             /\ \E j \in AssumeRoleCalls :
                  /\ j < i
                  /\ calls[j].outcome = "ok"
                  /\ calls[i].creds = calls[j].Credentials
                  /\ calls[i].creds # calls[j].creds
        /\ (aws_client = "self" =>
              /\ self.s3_client.kind = "temporary"
              /\ \E j \in AssumeRoleCalls : self.s3_client.creds = calls[j].Credentials)

C1_Witness ==
    /\ RoleSupplied
    /\ PairSupplied
    /\ \E j \in AssumeRoleCalls : calls[j].outcome = "ok" /\ calls[j].kind = "explicit"
    /\ ValidationCalls # {}
    /\ Cardinality(EnumerationCalls) >= 2

----------------------------------------------------------------------------
(* C2 *)

\* The signing identity of the base session, read off the first remote call
\* (the base session signs it: assume-role when a role is given, otherwise
\* the validation listing).
BaseSessionObserved ==
    IF PairSupplied
    THEN calls[1].kind = "explicit" /\ calls[1].creds = SuppliedCreds
    ELSE calls[1].kind = "default" /\ calls[1].creds = DefaultChain(env, profile).creds

\* C2: if both the explicit key id and the explicit secret are supplied the
\* base session is authenticated with exactly those keys and the default
\* chain is not consulted; in every other case (neither, or only one of the
\* two) the base session uses the default chain.
C2_ExplicitPairBeatsAmbient ==
    /\ (pc = "assume" \/ (pc = "client" /\ ~RoleSupplied)) =>
          IF PairSupplied
          THEN /\ locals.session.kind = "explicit"
               /\ SessionCredentials(locals.session, env, profile).creds = SuppliedCreds
          ELSE /\ locals.session.kind = "default"
               /\ SessionCredentials(locals.session, env, profile) = DefaultChain(env, profile)
    /\ (Started /\ calls # <<>>) => BaseSessionObserved

\* Both keys supplied while the default chain would have found other
\* credentials, and the first call has been signed.
C2_Witness ==
    /\ PairSupplied
    /\ DefaultChain(env, profile).status = "found"
    /\ DefaultChain(env, profile).creds # SuppliedCreds
    /\ calls # <<>>

----------------------------------------------------------------------------
(* C3 *)

\* C3: the caller holds a connection only after one validation listing
\* against SOURCE_BUCKET succeeded on the connection's final client; a failed
\* validation is raised to the caller and leaves it without a connection.
C3_ConnectionOnlyAfterValidation ==
    /\ (aws_client = "self" \/ listings # <<>>) =>
          \E i \in ValidationCalls :
             /\ calls[i].outcome = "ok"
             /\ calls[i].Bucket = SOURCE_BUCKET
             /\ calls[i].kind = self.s3_client.kind
             /\ calls[i].creds = self.s3_client.creds
    /\ \A i \in ValidationCalls :
          calls[i].outcome # "ok" =>
             /\ aws_client = None
             /\ pc = "raised"
             /\ raised = Error(calls[i].outcome, "list_objects_v2", i)

\* A validation listing failed and the failure reached the caller.
C3_Witness ==
    /\ pc = "raised"
    /\ \E i \in ValidationCalls : calls[i].outcome = "EndpointConnectionError"
    /\ self.s3_client # NoClient

----------------------------------------------------------------------------
(* C4 *)

\* C4: when a role identifier is supplied and the delegation service rejects
\* the assume-role call, construction fails with that delegation error and
\* no listing call, validation or enumeration, is issued in that run.
C4_RejectedRoleIssuesNoListing ==
    \A i \in AssumeRoleCalls :
        calls[i].outcome = "ClientError" =>
            /\ pc = "raised"
            /\ raised = Error("ClientError", "assume_role", i)
            /\ aws_client = None
            /\ StorageCalls = {}
            /\ listings = <<>>

C4_Witness ==
    /\ RoleSupplied
    /\ pc = "raised"
    /\ \E i \in AssumeRoleCalls : calls[i].outcome = "ClientError"

----------------------------------------------------------------------------
(* C5 *)

\* C5: the session name passed to assume-role is unique per invocation: no
\* two assume-role calls of the process, at any two times (the same clock
\* second included), pass the same session name.
C5_SessionNamesUnique ==
    \A i, j \in 1..Len(roleSessionNames) :
        i # j => roleSessionNames[i] # roleSessionNames[j]

----------------------------------------------------------------------------
(* C6 *)

\* The value returned by the listing that issued call i (the enumeration
\* calls are the last calls of the invocation, one per returned value).
ListingOf(i) == listings[i - (Len(calls) - Len(listings))]

\* C6: get_files_from_s3_folder never propagates a failure: every call of it
\* returns a value, and when the backend listing fails the value is the one
\* an empty container yields.
C6_ListingNeverPropagates ==
    /\ Len(listings) = Cardinality(EnumerationCalls)
    /\ \A i \in EnumerationCalls :
          calls[i].outcome # "ok" =>
             /\ pc # "raised"
             /\ raised = NoError
             /\ ListingOf(i) = EmptyList
             /\ ListingOf(i) =
                  get_files_from_s3_folder(self.s3_client, "ok", <<>>, i, SOURCE_FOLDER).value

\* A backend failure during the enumeration listing, in run_manual_test,
\* which then returned normally.
C6_Witness ==
    /\ entry = "manual"
    /\ returned = "True"
    /\ bucket # <<>>
    /\ \E i \in EnumerationCalls : calls[i].outcome = "EndpointConnectionError"

----------------------------------------------------------------------------
(* C7 *)

\* C7: when the backend answers the listing with no entries,
\* get_files_from_s3_folder returns an empty listing, raises nothing and logs
\* no error.
C7_EmptyContainerIsNotAFailure ==
    (/\ bucket = <<>>
     /\ EnumerationCalls # {}
     /\ \A i \in EnumerationCalls : calls[i].outcome = "ok") =>
        /\ pc # "raised"
        /\ raised = NoError
        /\ ~ErrorLogged
        /\ Len(listings) = Cardinality(EnumerationCalls)
        /\ \A k \in 1..Len(listings) : listings[k] = EmptyList

C7_Witness ==
    /\ bucket = <<>>
    /\ listings # <<>>
    /\ \A i \in EnumerationCalls : calls[i].outcome = "ok"

----------------------------------------------------------------------------
(* C8 *)

ConstructionCalls == AssumeRoleCalls \cup ValidationCalls

\* C8: no retry, and failures propagate unmodified: one construction issues
\* assume-role at most once and the validation listing at most once; a
\* failing step is the last remote call; and the exception the caller gets
\* is the one that step raised.
C8_NoRetryUnmodifiedPropagation ==
    /\ Cardinality(AssumeRoleCalls) <= 1
    /\ Cardinality(ValidationCalls) <= 1
    /\ \A i \in ConstructionCalls :
          calls[i].outcome # "ok" =>
             /\ i = Len(calls)
             /\ pc = "raised"
             /\ raised = Error(calls[i].outcome, calls[i].op, i)
    /\ pc = "raised" =>
          \/ \E i \in ConstructionCalls :
                calls[i].outcome # "ok" /\ raised = Error(calls[i].outcome, calls[i].op, i)
          \/ raised = Error("PartialCredentialsError", "client", Len(calls) + 1)

\* Assume-role succeeded, the validation listing failed, and the caller has
\* the failure.
C8_Witness ==
    /\ pc = "raised"
    /\ \E i \in AssumeRoleCalls : calls[i].outcome = "ok"
    /\ \E i \in ValidationCalls : calls[i].outcome = "ClientError"

----------------------------------------------------------------------------
(* C9 *)

\* No explicit pair was given and the default chain finds nothing.
NoIdentity ==
    /\ Started
    /\ ~PairSupplied
    /\ DefaultChain(env, profile).status = "none"

\* C9: with no explicit pair and nothing found by the default chain,
\* construction never returns a connection and, with or without a role
\* identifier, ends with the credential error (NoCredentialsError); that
\* error type is raised in no other situation, so it is told apart from a
\* rejected delegation and from a failed validation of a signed request.
C9_NoIdentityIsACredentialError ==
    /\ NoIdentity =>
          /\ aws_client = None
          /\ listings = <<>>
          /\ pc \in {"session", "assume", "client", "test", "raised"}
          /\ \A i \in CallIndexes : calls[i].outcome = "NoCredentialsError"
          /\ Len(calls) <= 1
          /\ (pc = "raised" => raised.type = "NoCredentialsError")
    /\ (pc = "raised" /\ raised.type = "NoCredentialsError") => NoIdentity
    /\ \A i \in CallIndexes : calls[i].outcome = "NoCredentialsError" => NoIdentity

C9_Witness ==
    /\ NoIdentity
    /\ RoleSupplied
    /\ pc = "raised"
    /\ raised.op = "assume_role"

----------------------------------------------------------------------------
(* C10 *)

\* C10: in run_manual_test the enumeration listing is issued only after the
\* construction of AwsConnection has returned, every remote call before it
\* having succeeded; when construction fails, the failure leaves
\* run_manual_test and the enumeration listing is never issued.
C10_BrokerCompletesBeforeLister ==
    entry = "manual" =>
        /\ \A i \in EnumerationCalls :
              /\ aws_client = "self"
              /\ \E j \in ValidationCalls : j < i /\ calls[j].outcome = "ok"
              /\ \A j \in 1..(i - 1) : calls[j].outcome = "ok"
        /\ (\E i \in ConstructionCalls : calls[i].outcome # "ok") =>
              /\ pc = "raised"
              /\ raised # NoError
              /\ returned = None
              /\ EnumerationCalls = {}
        /\ pc = "raised" => (EnumerationCalls = {} /\ returned = None /\ raised # NoError)
        /\ returned = "True" => Cardinality(EnumerationCalls) = 1

C10_Witness ==
    /\ entry = "manual"
    /\ RoleSupplied
    /\ returned = "True"
    /\ Len(calls) = 3

----------------------------------------------------------------------------
(* C11 *)

\* Explicit argument, else the environment variable when set, else the
\* built-in default.
Preferred(arg, envValue, default) ==
    IF Truthy(arg) THEN arg
    ELSE IF envValue # None THEN envValue
    ELSE default

\* C11: each of the four settings run_manual_test hands to AwsConnection is
\* the explicit argument when one is given, otherwise the environment
\* variable's value when it is set, otherwise the built-in default
\* (us-east-1 for the region, no value for the other three); the environment
\* never overrides a given argument.
C11_ArgumentsThenEnvironmentThenDefaults ==
    (entry = "manual" /\ Started) =>
        /\ locals.aws_access_key_id =
             Preferred(args.aws_access_key_id, env.AWS_ACCESS_KEY_ID, None)
        /\ locals.aws_secret_access_key =
             Preferred(args.aws_secret_access_key, env.AWS_SECRET_ACCESS_KEY, None)
        /\ self.assume_role_arn =
             Preferred(args.assume_role_arn, env.ASSUME_ROLE_ARN, None)
        /\ self.region_name =
             Preferred(args.region_name, env.AWS_DEFAULT_REGION, "us-east-1")
        /\ (self.s3_client # NoClient =>
              self.s3_client.region =
                 Preferred(args.region_name, env.AWS_DEFAULT_REGION, "us-east-1"))
        /\ (Truthy(args.aws_access_key_id) => locals.aws_access_key_id = args.aws_access_key_id)
        /\ (Truthy(args.assume_role_arn) => self.assume_role_arn = args.assume_role_arn)

\* A given key id with another one in the environment, a secret and a role
\* taken from the environment, and the default region; the client is built.
C11_Witness ==
    /\ entry = "manual"
    /\ args.aws_access_key_id = "AKIAARG"
    /\ env.AWS_ACCESS_KEY_ID = "AKIAENV"
    /\ args.aws_secret_access_key = ""
    /\ locals.aws_secret_access_key = "env-secret"
    /\ args.assume_role_arn = None
    /\ self.assume_role_arn = "arn:aws:iam::123:role/E"
    /\ args.region_name = None
    /\ env.AWS_DEFAULT_REGION = None
    /\ self.s3_client # NoClient
    /\ self.s3_client.region = "us-east-1"

----------------------------------------------------------------------------
(* C12 *)

ConstructionFailed ==
    \/ \E i \in ConstructionCalls : calls[i].outcome # "ok"
    \/ (pc = "raised" /\ raised.op = "client")

\* C12: the two failure policies differ at the entry point: a credential,
\* delegation or connectivity failure ends run_manual_test with a raised
\* error, an error having been logged; a failure of the enumeration listing
\* ends it with a normal return, an empty listing having been produced.
C12_AsymmetricFailurePolicies ==
    entry = "manual" =>
        /\ ConstructionFailed =>
              /\ pc = "raised"
              /\ raised # NoError
              /\ returned = None
              /\ logs[Len(logs)] = Log("ERROR", "Failed to initialize AWS clients")
        /\ (\E i \in EnumerationCalls : calls[i].outcome # "ok") =>
              /\ pc = "done"
              /\ raised = NoError
              /\ returned = "True"
              /\ listings = <<EmptyList>>
        /\ pc = "raised" => (ConstructionFailed /\ ErrorLogged)

\* The enumeration listing of a non-empty container failed and
\* run_manual_test returned.
C12_Witness ==
    /\ entry = "manual"
    /\ pc = "done"
    /\ bucket # <<>>
    /\ \E i \in EnumerationCalls : calls[i].outcome = "ClientError"
    /\ ErrorLogged

----------------------------------------------------------------------------
(* C13 *)

\* The call issued by the k-th listing of the invocation.
CallOf(k) == Len(calls) - Len(listings) + k

\* The records of a returned listing, order set aside.
RecordSet(v) == { v.rows[k] : k \in 1..Len(v.rows) }

\* C13 as stated: any two calls of get_files_from_s3_folder on the same
\* connection, the container's contents being the same for both, yield the
\* same set of records (key, size, last-modified, storage-class).
C13_ListingIdempotent ==
    \A k, l \in 1..Len(listings) :
        RecordSet(listings[k]) = RecordSet(listings[l])

\* C13 amended: any two calls of get_files_from_s3_folder on the same
\* connection whose backend listing calls both succeed, the container's
\* contents being the same for both, yield the same set of records.
C13_ListingIdempotentWhenBothSucceed ==
    \A k, l \in 1..Len(listings) :
        (calls[CallOf(k)].outcome = "ok" /\ calls[CallOf(l)].outcome = "ok") =>
            RecordSet(listings[k]) = RecordSet(listings[l])

\* Two successful listings of a container holding two objects.
C13_Witness ==
    /\ Len(listings) >= 2
    /\ Len(bucket) >= 2
    /\ calls[CallOf(1)].outcome = "ok"
    /\ calls[CallOf(2)].outcome = "ok"
    /\ Cardinality(RecordSet(listings[1])) = 2

----------------------------------------------------------------------------
(* C14 *)

\* The instant a timestamp denotes, as <<seconds, nanoseconds>>.
InstantOfRow(ts) == <<ts.wall - ts.offset, ts.ns>>
InstantOfEntry(dt) == <<dt.wall - dt.offset, dt.us * 1000>>

\* Row r is the record of backend entry o.
RecordOf(r, o) ==
    /\ r.Key = o.Key
    /\ r.Size = o.Size
    /\ r.StorageClass = o.StorageClass
    /\ InstantOfRow(r.LastModified) = InstantOfEntry(o.LastModified)

\* C14: when the backend listing call succeeds with N >= 1 entries,
\* get_files_from_s3_folder returns exactly N records, the k-th being the
\* record of the k-th entry: none dropped, duplicated or reordered.
C14_OneRecordPerEntryInOrder ==
    \A k \in 1..Len(listings) :
        LET i == CallOf(k)
            entries == KeepMatching(bucket, calls[i].Prefix)
        IN  (calls[i].outcome = "ok" /\ Len(entries) >= 1) =>
                /\ listings[k].type = "DataFrame"
                /\ Len(listings[k].rows) = Len(entries)
                /\ \A n \in 1..Len(entries) : RecordOf(listings[k].rows[n], entries[n])

\* A successful listing of two objects that the backend returns with the
\* older one first.
C14_Witness ==
    /\ Len(listings) >= 1
    /\ calls[CallOf(1)].outcome = "ok"
    /\ Len(bucket) = 2
    /\ bucket[1].LastModified.wall < bucket[2].LastModified.wall
    /\ Len(listings[1].rows) = 2

----------------------------------------------------------------------------
(* C15 *)

\* C15: every returned record's timestamp is the entry's UTC last-modified
\* value converted to America/Mexico_City: timezone-aware, the same instant
\* to the last digit, read on that zone's wall clock.
C15_TimestampsConvertedToMexicoCity ==
    \A k \in 1..Len(listings) :
        \A n \in 1..Len(listings[k].rows) :
            LET ts == listings[k].rows[n].LastModified
                dt == KeepMatching(bucket, calls[CallOf(k)].Prefix)[n].LastModified
                utc == dt.wall - dt.offset
            IN  /\ ts.tz = "America/Mexico_City"
                /\ ts.wall - ts.offset = utc
                /\ ts.ns = dt.us * 1000
                /\ ts.offset = MexicoCityOffsetAt(utc)
                /\ ts.wall = utc + MexicoCityOffsetAt(utc)

\* A returned record of an object modified while daylight saving was in
\* force, and one of an object modified after it was abolished.
C15_Witness ==
    /\ Len(listings) >= 1
    /\ \E n \in 1..Len(listings[1].rows) :
          listings[1].rows[n].LastModified.offset = MexicoCityDaylightOffset
    /\ \E n \in 1..Len(listings[1].rows) :
          listings[1].rows[n].LastModified.offset = MexicoCityStandardOffset

----------------------------------------------------------------------------
(* C16 *)

\* Values SOURCE_FOLDER may be configured to.
Folders == {SOURCE_FOLDER, "", "other"}

\* C16: the enumeration listing is requested for the whole of SOURCE_BUCKET,
\* with no prefix, whatever SOURCE_FOLDER is: for every folder value the call
\* made and the value returned are the ones observed, and every object of the
\* container, in the folder or not, is in a successful listing.
C16_ListingIgnoresSourceFolder ==
    /\ \A i \in EnumerationCalls :
          /\ calls[i].Bucket = SOURCE_BUCKET
          /\ calls[i].Prefix = NoPrefix
          /\ \A f \in Folders :
                ListRequest(f) = [Bucket |-> calls[i].Bucket, Prefix |-> calls[i].Prefix]
    \* the listing that has just returned (every listing is, once, the last)
    /\ (listings # <<>> /\ Len(calls) \in EnumerationCalls) =>
          LET i == Len(calls)
              got == listings[Len(listings)]
          IN  /\ \A f \in Folders :
                    LET r == get_files_from_s3_folder(self.s3_client, calls[i].outcome,
                                                      bucket, i, f)
                    IN  r.calls = <<calls[i]>> /\ r.value = got
              /\ calls[i].outcome = "ok" =>
                    \A n \in 1..Len(bucket) :
                       \E m \in 1..Len(got.rows) : got.rows[m].Key = bucket[n].Key

\* A successful listing that returned an object outside SOURCE_FOLDER along
\* with one inside it.
C16_Witness ==
    /\ Len(listings) >= 1
    /\ \E m \in 1..Len(listings[1].rows) : listings[1].rows[m].Key[1] # SOURCE_FOLDER
    /\ \E m \in 1..Len(listings[1].rows) : listings[1].rows[m].Key[1] = SOURCE_FOLDER

----------------------------------------------------------------------------
(* C17 *)

\* A step taken by get_files_from_s3_folder.
ListingStep == pc = "list" /\ pc' # "idle" /\ calls' # calls

\* C17: get_files_from_s3_folder leaves the connection as it was (storage
\* client and its credentials, region, role identifier), whether it succeeds,
\* finds nothing or fails; it issues exactly one call, a listing signed by
\* the connection's client, and no assume-role call.
C17_ListingLeavesConnectionUnchanged ==
    [][ListingStep =>
          /\ self' = self
          /\ aws_client' = aws_client
          /\ locals' = locals
          /\ Len(calls') = Len(calls) + 1
          /\ SubSeq(calls', 1, Len(calls)) = calls
          /\ calls'[Len(calls')].op = "list_objects_v2"
          /\ calls'[Len(calls')].phase = "enumerate"
          /\ calls'[Len(calls')].kind = self.s3_client.kind
          /\ calls'[Len(calls')].creds = self.s3_client.creds
          /\ roleSessionNames' = roleSessionNames]_vars

\* A connection built on an assumed role that has listed twice, once with a
\* backend failure, the role having been assumed once.
C17_Witness ==
    /\ entry = "direct"
    /\ RoleSupplied
    /\ Len(listings) >= 2
    /\ \E i \in EnumerationCalls : calls[i].outcome # "ok"
    /\ \E i \in EnumerationCalls : calls[i].outcome = "ok"
    /\ Cardinality(AssumeRoleCalls) = 1
    /\ self.s3_client.kind = "temporary"

====
